---- MODULE Spec2Model ----
(***************************************************************************)
(* Model of novafi/src/App.js: the root component that renders the         *)
(* navigation bar (NavBar) above a table of five routes.                   *)
(*                                                                         *)
(* URL paths are taken in the form the router compares them in (letter     *)
(* case and trailing slashes already normalised by the routing library),   *)
(* so a path is "defined" exactly when it is the path of a route binding.  *)
(***************************************************************************)
EXTENDS Integers, Sequences, FiniteSets

\* Number of renders of App (the first one included) explored in one run.
MaxRenders == 4

\* The URL paths a navigation event may carry: the five defined paths, an
\* unknown path, a path nested under a defined one and a proper prefix of one.
Urls ==
  {"/", "/features", "/pricing", "/contact", "/login",
   "/unknown", "/pricing/plans", "/feature"}

VARIABLES
  location,    \* the current URL path (owned by the router)
  routes,      \* the route bindings handed to <Routes> by the latest render
  content,     \* the page components mounted in the content region
  navMounted,  \* whether NavBar is mounted
  navMounts,   \* how many times NavBar has been mounted (initialised)
  history,     \* the URL paths of the navigation events so far, oldest first
  views,       \* views[i]: what was on screen after navigation event i
  renders      \* how many times App has rendered

vars == <<location, routes, content, navMounted, navMounts, history, views, renders>>

----------------------------------------------------------------------------
\* Variants of the code used to check that each property depends on it.

RouteTableSwapped ==
  << [path |-> "/",         element |-> "Home"],
     [path |-> "/features", element |-> "Pricing"],
     [path |-> "/pricing",  element |-> "Features"],
     [path |-> "/contact",  element |-> "Contact"],
     [path |-> "/login",    element |-> "Login"] >>

RouteTableCopyPaste ==
  << [path |-> "/",         element |-> "Home"],
     [path |-> "/features", element |-> "Features"],
     [path |-> "/pricing",  element |-> "Pricing"],
     [path |-> "/contact",  element |-> "Home"],
     [path |-> "/login",    element |-> "Login"] >>

RouteTableNoLogin ==
  << [path |-> "/",         element |-> "Home"],
     [path |-> "/features", element |-> "Features"],
     [path |-> "/pricing",  element |-> "Pricing"],
     [path |-> "/contact",  element |-> "Contact"] >>

RouteTableCatchAll ==
  << [path |-> "/",         element |-> "Home"],
     [path |-> "/features", element |-> "Features"],
     [path |-> "/pricing",  element |-> "Pricing"],
     [path |-> "/contact",  element |-> "Contact"],
     [path |-> "/login",    element |-> "Login"],
     [path |-> "*",         element |-> "NotFound"] >>

\* Two bindings with the same path.
RouteTableDuplicatePath ==
  << [path |-> "/",         element |-> "Home"],
     [path |-> "/features", element |-> "Features"],
     [path |-> "/pricing",  element |-> "Pricing"],
     [path |-> "/pricing",  element |-> "Contact"],
     [path |-> "/login",    element |-> "Login"] >>

\* A binding rendered only under a condition on the current URL.
RouteTableConditional ==
  IF location = "/login" THEN RouteTableNoLogin
  ELSE << [path |-> "/",         element |-> "Home"],
          [path |-> "/features", element |-> "Features"],
          [path |-> "/pricing",  element |-> "Pricing"],
          [path |-> "/contact",  element |-> "Contact"],
          [path |-> "/login",    element |-> "Login"] >>

\* The route bindings of App, in source order.
RouteTable ==
  << [path |-> "/",         element |-> "Home"],
     [path |-> "/features", element |-> "Features"],
     [path |-> "/pricing",  element |-> "Pricing"],
     [path |-> "/contact",  element |-> "Contact"],
     [path |-> "/login",    element |-> "Login"] >>

\* Whether a route's path pattern matches a URL path: a literal pattern
\* matches that path and no other (no prefix or nested match); "*" matches
\* every path.
matchPath(pattern, pathname) ==
  pattern = "*" \/ pattern = pathname

\* The indices of the bindings of rt that match pathname, in table order.
matchRoutes(rt, pathname) ==
  SelectSeq([i \in 1..Len(rt) |-> i], LAMBDA i : matchPath(rt[i].path, pathname))

\* <Routes>: the element of the first binding that matches, or nothing.
Routes(rt, pathname) ==
  LET m == matchRoutes(rt, pathname)
  IN  IF m = <<>> THEN {} ELSE {rt[m[1]].element}

\* NavBar remounted on every render (say, keyed by the location).
NavBarMountsKeyed(mounted, count) == count + 1

\* <NavBar /> is the first child of App's fragment in every render: an
\* element of the same type in the same position keeps its instance, so it
\* is mounted by the first render only.
NavBarMounts(mounted, count) == IF mounted THEN count ELSE count + 1

\* What is on screen.
View == [content |-> content, shell |-> navMounted, mounts |-> navMounts]

Init ==
  \E url \in Urls :
    /\ location = url
    /\ routes = RouteTable
    /\ content = Routes(RouteTable, url)
    /\ navMounted = TRUE
    /\ navMounts = NavBarMounts(FALSE, 0)
    /\ history = <<url>>
    /\ views = << [content |-> Routes(RouteTable, url), shell |-> TRUE,
                   mounts |-> NavBarMounts(FALSE, 0)] >>
    /\ renders = 1

\* Navigation that keeps the page of the previous route mounted.
NavigateKeepAlive(url) ==
  /\ renders < MaxRenders
  /\ location' = url
  /\ routes' = RouteTable
  /\ content' = content \cup Routes(RouteTable, url)
  /\ navMounted' = TRUE
  /\ navMounts' = NavBarMounts(navMounted, navMounts)
  /\ history' = Append(history, url)
  /\ views' = Append(views, [content |-> content', shell |-> TRUE, mounts |-> navMounts'])
  /\ renders' = renders + 1

\* Navigation whose render reads the location before the change.
NavigateStale(url) ==
  /\ renders < MaxRenders
  /\ location' = url
  /\ routes' = RouteTable
  /\ content' = Routes(RouteTable, location)
  /\ navMounted' = TRUE
  /\ navMounts' = NavBarMounts(navMounted, navMounts)
  /\ history' = Append(history, url)
  /\ views' = Append(views, [content |-> content', shell |-> TRUE, mounts |-> navMounts'])
  /\ renders' = renders + 1

\* A navigation event to url (a link of NavBar, the address bar, back or
\* forward): the router sets the current path and the tree renders again.
Navigate(url) ==
  /\ renders < MaxRenders
  /\ location' = url
  /\ routes' = RouteTable
  /\ content' = Routes(RouteTable, url)
  /\ navMounted' = TRUE
  /\ navMounts' = NavBarMounts(navMounted, navMounts)
  /\ history' = Append(history, url)
  /\ views' = Append(views, [content |-> content', shell |-> TRUE, mounts |-> navMounts'])
  /\ renders' = renders + 1

\* A render that sends every unmatched path to "/".
RerenderRedirect ==
  /\ renders < MaxRenders
  /\ location' = IF matchRoutes(RouteTable, location) = <<>> THEN "/" ELSE location
  /\ routes' = RouteTable
  /\ content' = Routes(RouteTable, location')
  /\ navMounted' = TRUE
  /\ navMounts' = NavBarMounts(navMounted, navMounts)
  /\ renders' = renders + 1
  /\ UNCHANGED <<history, views>>

\* App renders again with no navigation event: the route table is matched
\* against the current path (the dispatch step alone).
Rerender ==
  /\ renders < MaxRenders
  /\ routes' = RouteTable
  /\ content' = Routes(RouteTable, location)
  /\ navMounted' = TRUE
  /\ navMounts' = NavBarMounts(navMounted, navMounts)
  /\ renders' = renders + 1
  /\ UNCHANGED <<location, history, views>>

Next ==
  \/ \E url \in Urls : Navigate(url)
  \/ Rerender

Spec == Init /\ [][Next]_vars

----------------------------------------------------------------------------
\* The properties of the specification.

\* The five defined paths and the page each is documented to show.
FivePaths == {"/", "/features", "/pricing", "/contact", "/login"}

BoundPage(p) ==
  CASE p = "/"         -> "Home"
    [] p = "/features" -> "Features"
    [] p = "/pricing"  -> "Pricing"
    [] p = "/contact"  -> "Contact"
    [] p = "/login"    -> "Login"

\* C1: whenever the current path is one of the five defined paths, whatever
\* came before, the content region shows the page bound to that path and
\* NavBar is in the output.
C1_DefinedPathRendersItsPage ==
  \A p \in FivePaths :
    location = p => content = {BoundPage(p)} /\ navMounted

\* C1 witness: a navigation has landed on "/login" and Login is shown.
C1_Witness ==
  /\ Len(history) >= 2
  /\ location = "/login"
  /\ content = {"Login"}
  /\ navMounted

\* C2: NavBar is mounted by the first render and stays mounted; no later
\* render or navigation mounts it again (its mount count stays 1).
C2_PersistentShell ==
  /\ navMounted
  /\ navMounts = 1
  /\ \A i \in DOMAIN views : views[i].shell /\ views[i].mounts = 1

\* C2 witness: three navigation events between different defined paths,
\* with NavBar still on its first mount.
C2_Witness ==
  /\ Len(history) >= 3
  /\ \A i \in DOMAIN history : history[i] \in FivePaths
  /\ history[1] # history[2]
  /\ history[2] # history[3]
  /\ navMounts = 1

\* C3 as stated: in every reachable state exactly one page component is
\* rendered in the content region.
C3_ExactlyOnePageAlways == Cardinality(content) = 1

\* C3 amended: at most one page component is rendered in every reachable
\* state, and exactly one whenever the current path is a defined path.
C3_AtMostOnePage ==
  /\ Cardinality(content) <= 1
  /\ location \in FivePaths => Cardinality(content) = 1

\* C3 witness: a navigation to a defined path with one page rendered.
C3_Witness ==
  /\ Len(history) >= 2
  /\ location = "/features"
  /\ Cardinality(content) = 1

\* C4 as stated: the paths of the table are pairwise distinct and exactly
\* one binding matches the given (current) URL.
C4_ExactlyOneMatchAlways ==
  /\ \A i, j \in DOMAIN routes : i # j => routes[i].path # routes[j].path
  /\ Len(matchRoutes(routes, location)) = 1

\* C4 amended: the paths of the table are pairwise distinct, no binding is a
\* wildcard, at most one binding matches any URL, and exactly one matches
\* each defined path.
C4_UniqueMatch ==
  /\ \A i, j \in DOMAIN routes : i # j => routes[i].path # routes[j].path
  /\ \A i \in DOMAIN routes : routes[i].path # "*"
  /\ \A url \in Urls : Len(matchRoutes(routes, url)) <= 1
  /\ \A url \in FivePaths : Len(matchRoutes(routes, url)) = 1
  /\ Len(matchRoutes(routes, location)) <= 1

\* C4 witness: the table has been matched against a nested path, which
\* matches no binding, after a navigation from a defined path.
C4_Witness ==
  /\ Len(history) >= 2
  /\ history[Len(history) - 1] = "/pricing"
  /\ location = "/pricing/plans"
  /\ matchRoutes(routes, location) = <<>>

\* C5: after any sequence of navigations the route table holds the same five
\* (path, component) bindings it was constructed with.
C5_RouteTableImmutable ==
  /\ Len(routes) = 5
  /\ {<<routes[i].path, routes[i].element>> : i \in DOMAIN routes} =
       { <<"/", "Home">>, <<"/features", "Features">>, <<"/pricing", "Pricing">>,
         <<"/contact", "Contact">>, <<"/login", "Login">> }

\* C5 witness: the table after the last render of a run that navigated to
\* "/login" and on to an unknown path.
C5_Witness ==
  /\ renders = MaxRenders
  /\ \E i \in DOMAIN history : history[i] = "/login"
  /\ location = "/unknown"
  /\ Len(routes) = 5

\* C6: two different defined paths never show the same page component.
C6_DistinctPages ==
  /\ \A i, j \in DOMAIN routes :
       i # j => routes[i].element # routes[j].element
  /\ \A i, j \in DOMAIN history :
       (history[i] \in FivePaths /\ history[j] \in FivePaths /\ history[i] # history[j])
         => views[i].content # views[j].content

\* C6 witness: a run that has shown the pages of "/" and "/contact".
C6_Witness ==
  \E i, j \in DOMAIN history :
    /\ history[i] = "/"
    /\ history[j] = "/contact"
    /\ views[i].content = {"Home"}
    /\ views[j].content = {"Contact"}

\* C7: a navigation from a defined path P to another defined path Q leaves
\* Q's page rendered, P's page unmounted and NavBar unchanged.
C7_SwitchPage ==
  [][\A P, Q \in FivePaths :
       (P # Q /\ location = P /\ location' = Q)
         => /\ content' = {BoundPage(Q)}
            /\ BoundPage(P) \notin content'
            /\ content \cap content' = {}
            /\ navMounted' = navMounted
            /\ navMounts' = navMounts]_vars

\* C7 witness: "/" then "/pricing": Pricing is shown, Home is not.
C7_Witness ==
  /\ Len(history) >= 2
  /\ history[Len(history) - 1] = "/"
  /\ history[Len(history)] = "/pricing"
  /\ views[Len(history) - 1].content = {"Home"}
  /\ content = {"Pricing"}
  /\ views[Len(history)].mounts = views[Len(history) - 1].mounts

\* C8: at a path that is not one of the five defined paths the content
\* region is empty (no page, no fallback page) and NavBar is still rendered.
C8_UnmatchedRendersNothing ==
  location \notin FivePaths =>
    /\ matchRoutes(routes, location) = <<>>
    /\ content = {}
    /\ navMounted

\* C8 witness: a navigation from a defined path to "/unknown".
C8_Witness ==
  /\ Len(history) >= 2
  /\ history[Len(history) - 1] \in FivePaths
  /\ location = "/unknown"
  /\ content = {}
  /\ navMounted

\* C9: what is on screen depends on the current path alone: any two points
\* of a run at the same path show the same page and the same NavBar, and
\* what is shown now is what was shown when the run first was at this path.
C9_ViewDependsOnPathOnly ==
  /\ \A i, j \in DOMAIN history :
       history[i] = history[j] => views[i] = views[j]
  /\ \A i \in DOMAIN history :
       history[i] = location => views[i] = View

\* C9 witness: the same path reached twice, from two different paths.
C9_Witness ==
  \E i, j \in DOMAIN history :
    /\ 1 < i
    /\ i < j
    /\ history[i] = history[j]
    /\ history[i - 1] # history[j - 1]
    /\ history[i - 1] # history[i]
    /\ history[j - 1] # history[j]
    /\ views[i] = views[j]

\* C10: a step without a navigation event (the dispatch step) leaves the
\* current path unchanged, for defined and undefined paths, and after every
\* step the current path is the path of the last navigation event.
C10_RenderKeepsLocation ==
  [][/\ history' = history => location' = location
     /\ location' = history'[Len(history')]]_vars

\* C10 witness: App has rendered again, with no navigation event, at an
\* undefined path.
C10_Witness ==
  /\ renders > Len(history)
  /\ location = "/unknown"
  /\ history[Len(history)] = "/unknown"

====
